---------------------------- MODULE Spec2Model ----------------------------
(***************************************************************************)
(* Model of hamidriasat/table_text_extractor.                              *)
(*                                                                         *)
(*   ocr_processor.py    TextExtractor.group_text_into_rows, the row       *)
(*                       reconstruction: centroids, sort by avg_y, greedy  *)
(*                       scan with a fixed anchor, sort of each row by     *)
(*                       avg_x.                                            *)
(*   table_processor.py  TableExtractor: the detector object that keeps    *)
(*                       the cropped regions in self.detected_tables.      *)
(*   app.py              the /extract_text_from_image handler working on   *)
(*                       the one global table_detector.                    *)
(*                                                                         *)
(* Coordinates are integers (pixels); a centroid sum(c) / len(c) is kept   *)
(* as the exact fraction <<sum(c), len(c)>> and compared by cross          *)
(* multiplication.                                                         *)
(*                                                                         *)
(* Three specifications:                                                   *)
(*   RowsSpec  one call of group_text_into_rows on every bounded input;    *)
(*   SeqSpec   requests handled one after the other by one server process; *)
(*   ConcSpec  requests handled by concurrent threads of one process.      *)
(***************************************************************************)
EXTENDS Integers, Sequences, FiniteSets, TLC

VARIABLES
    \* ---- TextExtractor / group_text_into_rows ----
    bounding_boxes,   \* self.bounding_boxes: one quadrilateral per text line
    detected_texts,   \* self.detected_texts: one string per text line
    ocr_results,      \* local list of dicts of group_text_into_rows
    rows,             \* local: the rows emitted so far (lists of texts)
    current_row,      \* local: the row accumulator (list of dicts)
    current_avg_y,    \* local: the anchor of the current row
    pos,              \* position of the for loop of line 127 in ocr_results
    pc,               \* where the call is
    raised,           \* the exception the call ended with, or "none"
    row_log,          \* history: for each emitted row its dicts as emitted
                      \* (cells), as scanned (scanned) and its anchor
    \* ---- TableExtractor (one shared instance) and the request handlers ----
    detected_tables,  \* table_detector.detected_tables
    source_image,     \* table_detector.source_image
    req,              \* per request: the handler's locals and its response
    started,          \* number of requests that have entered the handler
    failed_before,    \* history: a request ended in the except branch
    overlapped        \* history: requests that ran between execute and reset
                      \* while another request was between execute and reset

rowVars == <<bounding_boxes, detected_texts, ocr_results, rows, current_row,
             current_avg_y, pos, pc, raised, row_log>>
srvVars == <<detected_tables, source_image, req, started, failed_before,
             overlapped>>
vars == <<bounding_boxes, detected_texts, ocr_results, rows, current_row,
          current_avg_y, pos, pc, raised, row_log,
          detected_tables, source_image, req, started, failed_before,
          overlapped>>

---------------------------------------------------------------------------
(* Bounds of the model *)

MaxItems == 3       \* text items the recognizer reports for one region
MaxRequests == 3    \* requests handled one after the other (SeqSpec)
MaxThreads == 2     \* requests handled concurrently (ConcSpec)
MaxBoxes == 1       \* regions the detector finds in one image

(* Program constant *)
row_threshold == 10

---------------------------------------------------------------------------
(* Inputs: what the recognizer can report *)

\* a well-formed quadrilateral, clockwise from top-left, 4 wide and 3 high:
\* its centroid is (x + 2, y + 3/2)
Quad(x, y) == << <<x, y>>, <<x + 4, y>>, <<x + 4, y + 3>>, <<x, y + 3>> >>

\* a malformed quadrilateral of 3 points
Tri(x, y) == << <<x, y>>, <<x + 4, y>>, <<x, y + 3>> >>

QuadXs == {10, 30}
QuadYs == {0, 6, 10, 20}

WellFormed == {Quad(x, y) : x \in QuadXs, y \in QuadYs}
Malformed == {Tri(20, 3)}
Quads == WellFormed \cup Malformed

Texts == {"A", "B"}

SeqsUpTo(S, n) == UNION {[1..k -> S] : k \in 0..n}

---------------------------------------------------------------------------
(* Arithmetic of group_text_into_rows.  sum(c) / len(c) is kept as the     *)
(* exact fraction <<sum, len>>.                                            *)

RECURSIVE SumSeq(_)
SumSeq(s) == IF s = <<>> THEN 0 ELSE Head(s) + SumSeq(Tail(s))

Coord(coordinates, k) == [i \in 1..Len(coordinates) |-> coordinates[i][k]]

\* lines 113-116: avg = sum(coords) / len(coords)
Avg(coords) == <<SumSeq(coords), Len(coords)>>

\* a < b on fractions with positive denominators
FracLess(a, b) == a[1] * b[2] < b[1] * a[2]

Abs(n) == IF n < 0 THEN -n ELSE n

\* abs(a - b) < t
AbsDiffLess(a, b, t) == Abs(a[1] * b[2] - b[1] * a[2]) < t * a[2] * b[2]

\* abs(a - b) > t
AbsDiffMore(a, b, t) == Abs(a[1] * b[2] - b[1] * a[2]) > t * a[2] * b[2]

\* list.sort(key=...): a stable insertion sort, Less on the elements' keys
RECURSIVE InsertSorted(_, _, _)
InsertSorted(e, s, key) ==
    IF s = <<>> THEN <<e>>
    ELSE IF FracLess(e[key], Head(s)[key]) THEN <<e>> \o s
    ELSE <<Head(s)>> \o InsertSorted(e, Tail(s), key)

RECURSIVE StableSort(_, _)
StableSort(s, key) ==
    IF s = <<>> THEN <<>>
    ELSE InsertSorted(s[Len(s)], StableSort(SubSeq(s, 1, Len(s) - 1), key), key)


---------------------------------------------------------------------------
(* group_text_into_rows, as operators on the call's locals                 *)

\* lines 95-101: one dict per recognized line.  item is the dict's identity
\* (its place in the recognizer's output); the code never reads it.
organize_text_data(boxes, texts) ==
    [i \in 1..Len(boxes) |->
        [coordinates |-> boxes[i], text |-> texts[i], item |-> i]]

\* lines 113-116: the two centroid keys are added to the dict, whatever the
\* number of points of the quadrilateral
WithCentroid(e) ==
    [coordinates |-> e.coordinates, text |-> e.text, item |-> e.item,
     avg_y |-> Avg(Coord(e.coordinates, 2)),
     avg_x |-> Avg(Coord(e.coordinates, 1))]

\* line 115: sum(y_coords) / len(y_coords) divides by zero on an empty list
DividesByZero(results) ==
    \E i \in 1..Len(results) : Len(results[i].coordinates) = 0

\* variant of line 119: the list is scanned as the recognizer reported it
SortByAvgYIdentity(results) == results

\* line 119: ocr_results.sort(key=avg_y)
SortByAvgY(results) == StableSort(results, "avg_y")

\* variant of line 124: the anchor starts at 0
InitialAnchorZero(results) == <<0, 1>>

\* line 124: current_avg_y = ocr_results[0]['avg_y']
InitialAnchor(results) == results[1].avg_y

\* line 128: abs(item['avg_y'] - current_avg_y) < row_threshold
InRow(item, anchor) == AbsDiffLess(item.avg_y, anchor, row_threshold)

\* lines 132-133 and 139-140: sort the row by avg_x, keep the texts
SortRow(row) == StableSort(row, "avg_x")
TextsOf(row) == [i \in 1..Len(row) |-> row[i].text]

\* variant of line 129: the anchor follows the last item appended
AppendToRowMovingAnchor(st, item) ==
    [st EXCEPT !.current_row = Append(@, item),
               !.current_avg_y = item.avg_y]

\* line 129: the item joins the current row, the anchor stays
AppendToRow(st, item) ==
    [st EXCEPT !.current_row = Append(@, item)]

\* lines 131-135: the current row is closed and the item starts the next
CloseAndStart(st, item) ==
    [rows |-> Append(st.rows, TextsOf(SortRow(st.current_row))),
     row_log |-> Append(st.row_log, [cells |-> SortRow(st.current_row),
                                     scanned |-> st.current_row,
                                     anchor |-> st.current_avg_y]),
     current_row |-> <<item>>,
     current_avg_y |-> item.avg_y]

\* lines 128-135: one iteration of the scan
ScanStep(st, item) ==
    IF InRow(item, st.current_avg_y)
    THEN AppendToRow(st, item)
    ELSE CloseAndStart(st, item)

\* variant of lines 138-140: the last row is not appended
FinishScanDropLast(st) == st

\* variant of lines 138-140: the last row is appended as scanned
FinishScanUnsorted(st) ==
    IF st.current_row # <<>>
    THEN [st EXCEPT !.rows = Append(@, TextsOf(st.current_row)),
                    !.row_log = Append(@, [cells |-> st.current_row,
                                           scanned |-> st.current_row,
                                           anchor |-> st.current_avg_y])]
    ELSE st

\* lines 138-140: the last row is appended if it exists, sorted by avg_x
FinishScan(st) ==
    IF st.current_row # <<>>
    THEN [st EXCEPT !.rows = Append(@, TextsOf(SortRow(st.current_row))),
                    !.row_log = Append(@, [cells |-> SortRow(st.current_row),
                                           scanned |-> st.current_row,
                                           anchor |-> st.current_avg_y])]
    ELSE st

RECURSIVE ScanFrom(_, _, _)
ScanFrom(st, results, i) ==
    IF i > Len(results) THEN st
    ELSE ScanFrom(ScanStep(st, results[i]), results, i + 1)

\* lines 103-142 as one function: the exception raised, or the rows
group_text_into_rows(boxes, texts) ==
    LET organized == organize_text_data(boxes, texts)
    IN  IF DividesByZero(organized)
        THEN [raised |-> "ZeroDivisionError", rows |-> <<>>]
        ELSE
          LET results == SortByAvgY([i \in 1..Len(organized) |->
                                        WithCentroid(organized[i])])
          IN  IF results = <<>>
              THEN [raised |-> "IndexError", rows |-> <<>>]
              ELSE [raised |-> "none",
                    rows |-> FinishScan(ScanFrom(
                        [rows |-> <<>>, row_log |-> <<>>,
                         current_row |-> <<>>,
                         current_avg_y |-> InitialAnchor(results)],
                        results, 1)).rows]

---------------------------------------------------------------------------
(* RowsSpec: one call of group_text_into_rows, statement by statement      *)

NoAnchor == <<0, 1>>    \* current_avg_y before line 124 assigns it

\* the request handlers do not run in RowsSpec
SrvIdle ==
    /\ detected_tables = <<>>
    /\ source_image = 0
    /\ req = <<>>
    /\ started = 0
    /\ failed_before = FALSE
    /\ overlapped = {}

\* lines 39-50: extract_text has stored the recognizer's output
RowsInit ==
    /\ bounding_boxes \in SeqsUpTo(Quads, MaxItems)
    /\ detected_texts \in [1..Len(bounding_boxes) -> Texts]
    /\ ocr_results = <<>>
    /\ rows = <<>>
    /\ current_row = <<>>
    /\ current_avg_y = NoAnchor
    /\ pos = 0
    /\ pc = "call"
    /\ raised = "none"
    /\ row_log = <<>>
    /\ SrvIdle

\* lines 109-116: organize_text_data, then avg_y and avg_x of every dict
ComputeCentroids ==
    /\ pc = "call"
    /\ LET organized == organize_text_data(bounding_boxes, detected_texts)
       IN  IF DividesByZero(organized)
           THEN /\ raised' = "ZeroDivisionError"
                /\ pc' = "raised"
                /\ UNCHANGED ocr_results
           ELSE /\ ocr_results' = [i \in 1..Len(organized) |->
                                      WithCentroid(organized[i])]
                /\ pc' = "sort"
                /\ UNCHANGED raised
    /\ UNCHANGED <<bounding_boxes, detected_texts, rows, current_row,
                   current_avg_y, pos, row_log>>
    /\ UNCHANGED srvVars

\* lines 118-119: the dicts are sorted by avg_y
SortResults ==
    /\ pc = "sort"
    /\ ocr_results' = SortByAvgY(ocr_results)
    /\ pc' = "init"
    /\ UNCHANGED <<bounding_boxes, detected_texts, rows, current_row,
                   current_avg_y, pos, raised, row_log>>
    /\ UNCHANGED srvVars

\* lines 122-125: ocr_results[0] raises IndexError on an empty list
InitScan ==
    /\ pc = "init"
    /\ IF ocr_results = <<>>
       THEN /\ raised' = "IndexError"
            /\ pc' = "raised"
            /\ UNCHANGED <<rows, current_row, current_avg_y, pos>>
       ELSE /\ rows' = <<>>
            /\ current_row' = <<>>
            /\ current_avg_y' = InitialAnchor(ocr_results)
            /\ pos' = 1
            /\ pc' = "scan"
            /\ UNCHANGED raised
    /\ UNCHANGED <<bounding_boxes, detected_texts, ocr_results, row_log>>
    /\ UNCHANGED srvVars

\* lines 127-135: one iteration of the for loop
ScanItem ==
    /\ pc = "scan"
    /\ pos <= Len(ocr_results)
    /\ LET st == ScanStep([rows |-> rows, row_log |-> row_log,
                           current_row |-> current_row,
                           current_avg_y |-> current_avg_y],
                          ocr_results[pos])
       IN  /\ rows' = st.rows
           /\ row_log' = st.row_log
           /\ current_row' = st.current_row
           /\ current_avg_y' = st.current_avg_y
    /\ pos' = pos + 1
    /\ UNCHANGED <<bounding_boxes, detected_texts, ocr_results, pc, raised>>
    /\ UNCHANGED srvVars

\* lines 137-142: the loop is over, the last row is appended, rows returned
ReturnRows ==
    /\ pc = "scan"
    /\ pos > Len(ocr_results)
    /\ LET st == FinishScan([rows |-> rows, row_log |-> row_log,
                             current_row |-> current_row,
                             current_avg_y |-> current_avg_y])
       IN  /\ rows' = st.rows
           /\ row_log' = st.row_log
    /\ pc' = "returned"
    /\ UNCHANGED <<bounding_boxes, detected_texts, ocr_results, current_row,
                   current_avg_y, pos, raised>>
    /\ UNCHANGED srvVars

RowsNext ==
    \/ ComputeCentroids
    \/ SortResults
    \/ InitScan
    \/ ScanItem
    \/ ReturnRows

RowsSpec == RowsInit /\ [][RowsNext]_vars

---------------------------------------------------------------------------
(* The server: app.py's handler on the one global TableExtractor           *)

\* the requests of the run
Requests == DOMAIN req

\* what the recognizer reports for a cropped region: nothing, or two lines
\* of one row, the right one first
OcrOutputs ==
    { [boxes |-> <<>>, texts |-> <<>>],
      [boxes |-> <<Quad(30, 6), Quad(10, 0)>>, texts |-> <<"B", "A">>] }

\* the call of group_text_into_rows does not run on its own in the server
\* specifications: the handler's calls are evaluated by the operator
RowsIdle ==
    /\ bounding_boxes = <<>>
    /\ detected_texts = <<>>
    /\ ocr_results = <<>>
    /\ rows = <<>>
    /\ current_row = <<>>
    /\ current_avg_y = NoAnchor
    /\ pos = 0
    /\ pc = "idle"
    /\ raised = "none"
    /\ row_log = <<>>

\* the handler's locals when it is not running
NoLocals == [detections |-> 0, drawn |-> 0, idx |-> 0, tables_data |-> <<>>]

\* app.py 36-50, table_processor.py 49: load_initial_setup has built the
\* detector, none of the n requests has arrived
SrvInit(n) ==
    /\ RowsIdle
    /\ detected_tables = <<>>
    /\ source_image = 0
    /\ req = [r \in 1..n |->
                [pc |-> "idle", locals |-> NoLocals, status |-> 0,
                 exact |-> FALSE, foreign |-> FALSE, lost |-> FALSE,
                 after_failure |-> FALSE]]
    /\ started = 0
    /\ failed_before = FALSE
    /\ overlapped = {}

SeqInit == SrvInit(MaxRequests)
ConcInit == SrvInit(MaxThreads)

\* request q is between its detection and its reset
InWindow(q) == req[q].pc \in {"annotate", "loop", "reset"}

\* the regions detected in request r's own image, in detection order
OwnRegions(r) ==
    [j \in 1..req[r].locals.detections |-> [image |-> r, box |-> j]]

\* the regions of the tables of r's tables_data, in order
ResponseRegions(r) ==
    [j \in 1..Len(req[r].locals.tables_data) |->
        req[r].locals.tables_data[j].region]

\* history, taken when r's 200 response leaves: its tables are r's own
\* regions in detection order, numbered 1..k
IsExact(r) ==
    /\ ResponseRegions(r) = OwnRegions(r)
    /\ \A j \in 1..Len(req[r].locals.tables_data) :
           req[r].locals.tables_data[j].table_no = j

\* history: the response holds a region cut from another request's image
HasForeign(r) ==
    \E j \in 1..Len(req[r].locals.tables_data) :
        req[r].locals.tables_data[j].region.image # r

\* history: a region detected for r is in none of the response's tables
HasLost(r) ==
    \E j \in 1..req[r].locals.detections :
        \A i \in 1..Len(req[r].locals.tables_data) :
            req[r].locals.tables_data[i].region # OwnRegions(r)[j]

\* app.py 55-75: a request without an image file is answered 400
Reject(r) ==
    /\ req[r].pc = "idle"
    /\ r = started + 1
    /\ started' = r
    /\ req' = [req EXCEPT ![r].pc = "done", ![r].status = 400]
    /\ UNCHANGED <<detected_tables, source_image, failed_before, overlapped>>
    /\ UNCHANGED rowVars

\* app.py 55-83 and table_processor.py 51-64 (load_and_predict): the file
\* is saved and read, it becomes self.source_image, the detections are a
\* local of execute; with no detection annotate_image's loop is empty and
\* execute returns self.detected_tables
LoadAndPredict(r) ==
    /\ req[r].pc = "idle"
    /\ r = started + 1
    /\ started' = r
    /\ source_image' = r
    /\ \E k \in 0..MaxBoxes :
          req' = [req EXCEPT ![r].pc = IF k = 0 THEN "loop" ELSE "annotate",
                             ![r].locals.detections = k,
                             ![r].after_failure = failed_before]
    /\ overlapped' = IF \E q \in Requests \ {r} : InWindow(q)
                     THEN overlapped \cup {r}
                              \cup {q \in Requests \ {r} : InWindow(q)}
                     ELSE overlapped
    /\ UNCHANGED <<detected_tables, failed_before>>
    /\ UNCHANGED rowVars

\* one request at a time: the next enters when no other is in the handler
Quiet == \A q \in Requests : req[q].pc \in {"idle", "done"}
RejectSeq(r) == Quiet /\ Reject(r)
LoadAndPredictSeq(r) == Quiet /\ LoadAndPredict(r)

\* table_processor.py 72-80, 98-100: one box of annotate_image's loop: the
\* crop of self.source_image is appended to self.detected_tables; after the
\* last box execute returns the list self.detected_tables itself
AnnotateBox(r) ==
    /\ req[r].pc = "annotate"
    /\ req[r].locals.drawn < req[r].locals.detections
    /\ detected_tables' = Append(detected_tables,
                                 [image |-> source_image,
                                  box |-> req[r].locals.drawn + 1])
    /\ req' = [req EXCEPT ![r].locals.drawn = @ + 1,
                          ![r].pc = IF req[r].locals.drawn + 1
                                        = req[r].locals.detections
                                    THEN "loop" ELSE "annotate"]
    /\ UNCHANGED <<source_image, started, failed_before, overlapped>>
    /\ UNCHANGED rowVars

\* app.py 96-99: the rows of a table, numbered from 1
rows_data(table_rows) ==
    [i \in 1..Len(table_rows) |-> [row_no |-> i, data |-> table_rows[i]]]

\* app.py 89-101 and 106-108: one table of the loop over the shared list;
\* an exception of group_text_into_rows ends the request in the except
\* branch, which answers 500 and does not reach reset()
LoopTable(r) ==
    /\ req[r].pc = "loop"
    /\ req[r].locals.idx < Len(detected_tables)
    /\ \E out \in OcrOutputs :
          LET table_image == detected_tables[req[r].locals.idx + 1]
              table_rows == group_text_into_rows(out.boxes, out.texts)
          IN  IF table_rows.raised # "none"
              THEN /\ req' = [req EXCEPT ![r].pc = "done",
                                         ![r].status = 500,
                                         ![r].locals = NoLocals]
                   /\ failed_before' = TRUE
              ELSE /\ req' = [req EXCEPT
                                ![r].locals.tables_data =
                                    Append(@, [table_no |->
                                                   req[r].locals.idx + 1,
                                               region |-> table_image,
                                               rows |->
                                                   rows_data(table_rows.rows)]),
                                ![r].locals.idx = @ + 1]
                   /\ UNCHANGED failed_before
    /\ UNCHANGED <<detected_tables, source_image, started, overlapped>>
    /\ UNCHANGED rowVars

\* app.py 89: the enumeration of the shared list is exhausted
LoopExit(r) ==
    /\ req[r].pc = "loop"
    /\ req[r].locals.idx >= Len(detected_tables)
    /\ req' = [req EXCEPT ![r].pc = "reset"]
    /\ UNCHANGED <<detected_tables, source_image, started, failed_before,
                   overlapped>>
    /\ UNCHANGED rowVars

\* variant of table_processor.py 106: reset leaves the list as it is
ClearedKeepsTables(tables) == tables

\* table_processor.py 102-106: self.detected_tables.clear()
Cleared(tables) == <<>>

\* app.py 103-104: table_detector.reset(), then the 200 response made of
\* tables_data
ResetAndRespond(r) ==
    /\ req[r].pc = "reset"
    /\ detected_tables' = Cleared(detected_tables)
    /\ req' = [req EXCEPT ![r].pc = "done",
                          ![r].status = 200,
                          ![r].exact = IsExact(r),
                          ![r].foreign = HasForeign(r),
                          ![r].lost = HasLost(r),
                          ![r].locals = NoLocals]
    /\ UNCHANGED <<source_image, started, failed_before, overlapped>>
    /\ UNCHANGED rowVars

SeqNext ==
    \E r \in 1..MaxRequests :
        \/ RejectSeq(r)
        \/ LoadAndPredictSeq(r)
        \/ AnnotateBox(r)
        \/ LoopTable(r)
        \/ LoopExit(r)
        \/ ResetAndRespond(r)

ConcNext ==
    \E r \in 1..MaxThreads :
        \/ Reject(r)
        \/ LoadAndPredict(r)
        \/ AnnotateBox(r)
        \/ LoopTable(r)
        \/ LoopExit(r)
        \/ ResetAndRespond(r)

SeqSpec == SeqInit /\ [][SeqNext]_vars
ConcSpec == ConcInit /\ [][ConcNext]_vars

---------------------------------------------------------------------------
(* Properties of group_text_into_rows (RowsSpec)                           *)

Returned == pc = "returned"
NItems == Len(bounding_boxes)
Items == 1..NItems

\* centroid_y of input item i, from its quadrilateral
CentroidY(i) == Avg(Coord(bounding_boxes[i], 2))

\* the places <<row, column>> of the cells emitted so far
Positions == UNION {{<<k, j>> : j \in 1..Len(rows[k])} : k \in 1..Len(rows)}

\* the rows that hold input item i
RowsOf(i) == {k \in 1..Len(row_log) :
                 \E j \in 1..Len(row_log[k].cells) :
                     row_log[k].cells[j].item = i}
SameRow(a, b) == RowsOf(a) \cap RowsOf(b) # {}

\* item i is the first item assigned to its row in the scan
IsRowFirst(i) == \E k \in 1..Len(row_log) :
                     /\ row_log[k].scanned # <<>>
                     /\ row_log[k].scanned[1].item = i

\* rows holds the texts of the logged cells, place by place
RowsMatchLog ==
    /\ Len(rows) = Len(row_log)
    /\ \A k \in 1..Len(rows) :
          /\ Len(rows[k]) = Len(row_log[k].cells)
          /\ \A j \in 1..Len(rows[k]) :
                 /\ row_log[k].cells[j].item \in Items
                 /\ rows[k][j] = detected_texts[row_log[k].cells[j].item]

\* C1 (completeness): when group_text_into_rows returns on a non-empty
\* input, the number of cells over all rows equals the number of input
\* items, every input item is the cell of exactly one place, and each cell
\* holds the text of its item.
C1_Completeness ==
    (Returned /\ NItems > 0) =>
        /\ RowsMatchLog
        /\ Cardinality(Positions) = NItems
        /\ \A i \in Items :
              Cardinality({p \in Positions :
                              row_log[p[1]].cells[p[2]].item = i}) = 1

\* C1 witness: three items, two of them with the same text, returned in
\* two rows
C1_Witness ==
    /\ Returned
    /\ NItems = 3
    /\ detected_texts[1] = detected_texts[2]
    /\ Len(rows) = 2

\* C2 (as claimed): on an empty list of text items group_text_into_rows
\* raises nothing and returns the empty list of rows.
C2_EmptyInputReturnsEmpty ==
    (NItems = 0) =>
        /\ raised = "none"
        /\ pc # "raised"
        /\ (Returned => rows = <<>>)

\* C4 (as claimed): whatever else the input holds, two items whose
\* centroid_y differ by less than row_threshold are in the same row and
\* two items whose centroid_y differ by more are in different rows.
\* Stated for inputs whose quadrilaterals all have 4 points.
C4_Original ==
    (Returned /\ \A i \in Items : Len(bounding_boxes[i]) = 4) =>
        \A a, b \in Items :
            /\ (a # b /\ AbsDiffLess(CentroidY(a), CentroidY(b), row_threshold))
                   => SameRow(a, b)
            /\ AbsDiffMore(CentroidY(a), CentroidY(b), row_threshold)
                   => ~SameRow(a, b)

\* C4 (amended): two items whose centroid_y differ by more than
\* row_threshold are in different rows, whatever else the input holds; two
\* items whose centroid_y differ by less than row_threshold are in the same
\* row when the one with the smaller centroid_y is the first item of its
\* row, as it is when the input holds just these two items.
C4_Amended ==
    Returned =>
        /\ \A a, b \in Items :
              /\ AbsDiffMore(CentroidY(a), CentroidY(b), row_threshold)
                     => ~SameRow(a, b)
              /\ ( /\ AbsDiffLess(CentroidY(a), CentroidY(b), row_threshold)
                   /\ IsRowFirst(a)
                   /\ ~FracLess(CentroidY(b), CentroidY(a)) )
                     => SameRow(a, b)
        /\ NItems = 2 =>
              (AbsDiffLess(CentroidY(1), CentroidY(2), row_threshold)
                   => SameRow(1, 2))

\* C4 witness: a heads its row, b is less than the threshold below it and
\* shares the row, c is more than the threshold below a and in another row
C4_Witness ==
    /\ Returned
    /\ \E a, b, c \in Items :
          /\ IsRowFirst(a)
          /\ FracLess(CentroidY(a), CentroidY(b))
          /\ AbsDiffLess(CentroidY(a), CentroidY(b), row_threshold)
          /\ SameRow(a, b)
          /\ AbsDiffMore(CentroidY(a), CentroidY(c), row_threshold)
          /\ ~SameRow(a, c)

\* C5 (as claimed): an item whose quadrilateral does not have exactly 4
\* points makes group_text_into_rows fail; it never returns rows.
C5_MalformedRejected ==
    (\E i \in Items : Len(bounding_boxes[i]) # 4) => ~Returned

\* the anchor of an emitted row as the claims define it: the centroid_y of
\* the first item assigned to it in the scan
FirstY(k) == row_log[k].scanned[1].avg_y

\* C6 (row ordering): the rows emitted are ordered top to bottom: the
\* first-assigned item's centroid_y of each row is greater than or equal to
\* that of the row before it.
C6_RowOrder ==
    \A k \in 1..(Len(row_log) - 1) :
        /\ row_log[k].scanned # <<>>
        /\ row_log[k + 1].scanned # <<>>
        /\ ~FracLess(FirstY(k + 1), FirstY(k))

\* C6 witness: the recognizer reported a lower item before a higher one and
\* the call returned them in two rows, the higher one first
C6_Witness ==
    /\ Returned
    /\ NItems >= 2
    /\ FracLess(CentroidY(2), CentroidY(1))
    /\ Len(row_log) = 2
    /\ FracLess(FirstY(1), FirstY(2))
    /\ RowsOf(2) = {1}
    /\ RowsOf(1) = {2}

\* C7 (cell ordering): in every emitted row, the last one included, the
\* centroid_x of each cell is greater than or equal to that of the cell
\* before it, and the row returned holds the texts of these cells in order.
C7_CellOrder ==
    /\ Len(rows) = Len(row_log)
    /\ \A k \in 1..Len(row_log) :
          /\ rows[k] = TextsOf(row_log[k].cells)
          /\ \A j \in 1..(Len(row_log[k].cells) - 1) :
                 ~FracLess(row_log[k].cells[j + 1].avg_x,
                           row_log[k].cells[j].avg_x)

\* C7 witness: the last row was scanned right to left and is returned left
\* to right
C7_Witness ==
    /\ Returned
    /\ Len(row_log) = 2
    /\ Len(row_log[2].cells) = 2
    /\ FracLess(row_log[2].scanned[2].avg_x, row_log[2].scanned[1].avg_x)
    /\ FracLess(row_log[2].cells[1].avg_x, row_log[2].cells[2].avg_x)

\* C8 (row count): no emitted row is empty, and on a non-empty input of N
\* items the call returns at least 1 and at most N rows.
C8_RowCount ==
    /\ \A k \in 1..Len(rows) : rows[k] # <<>>
    /\ (Returned /\ NItems > 0) => (1 <= Len(rows) /\ Len(rows) <= NItems)

\* C8 witness: three isolated items, reported bottom-up, returned as three
\* rows of one cell
C8_Witness ==
    /\ Returned
    /\ NItems = 3
    /\ FracLess(CentroidY(3), CentroidY(2))
    /\ FracLess(CentroidY(2), CentroidY(1))
    /\ Len(rows) = 3
    /\ \A k \in 1..3 : Len(rows[k]) = 1

\* C9, the scan step: an item is appended to the current row exactly when
\* it is less than row_threshold from the anchor, and then the anchor and
\* the emitted rows stay; otherwise a row is emitted and the item starts
\* the next row and becomes its anchor.
C9_Step ==
    (pc = "scan" /\ pos' = pos + 1) =>
        LET item == ocr_results[pos]
            near == AbsDiffLess(item.avg_y, current_avg_y, row_threshold)
        IN  /\ near => /\ current_row' = Append(current_row, item)
                       /\ current_avg_y' = current_avg_y
                       /\ row_log' = row_log
            /\ ~near => /\ current_row' = <<item>>
                        /\ current_avg_y' = item.avg_y
                        /\ Len(row_log') = Len(row_log) + 1
            /\ (current_avg_y' # current_avg_y) => current_row' = <<item>>

\* C9, the consequences: the anchor is the centroid_y of the row's first
\* item, every item of an emitted row lies at or below its anchor by less
\* than row_threshold, and the anchors of consecutive rows differ by at
\* least row_threshold.
C9_Rows ==
    /\ (pc = "scan" /\ current_row # <<>>)
           => current_avg_y = current_row[1].avg_y
    /\ \A k \in 1..Len(row_log) :
          /\ row_log[k].scanned # <<>>
          /\ row_log[k].anchor = FirstY(k)
          /\ \A j \in 1..Len(row_log[k].cells) :
                 /\ ~FracLess(row_log[k].cells[j].avg_y, row_log[k].anchor)
                 /\ AbsDiffLess(row_log[k].cells[j].avg_y, row_log[k].anchor,
                                row_threshold)
    /\ \A k \in 1..(Len(row_log) - 1) :
          ~AbsDiffLess(row_log[k + 1].anchor, row_log[k].anchor,
                       row_threshold)

\* C9 (fixed anchor): every scan step is C9_Step and every state satisfies
\* C9_Rows.
C9_FixedAnchor == [][C9_Step]_vars /\ []C9_Rows

\* C9 witness: a row of two items followed by a row whose anchor is exactly
\* the threshold below the first row's anchor and less than the threshold
\* below the first row's second item: it was compared with the anchor
C9_Witness ==
    /\ Returned
    /\ Len(row_log) = 2
    /\ Len(row_log[1].scanned) = 2
    /\ FracLess(row_log[1].scanned[1].avg_y, row_log[1].scanned[2].avg_y)
    /\ ~AbsDiffLess(row_log[2].anchor, row_log[1].anchor, row_threshold)
    /\ ~AbsDiffMore(row_log[2].anchor, row_log[1].anchor, row_threshold)
    /\ AbsDiffLess(row_log[2].anchor, row_log[1].scanned[2].avg_y,
                   row_threshold)

---------------------------------------------------------------------------
(* Properties of the server (SeqSpec, ConcSpec)                            *)

Answered200(r) == req[r].pc = "done" /\ req[r].status = 200

C10_CorruptionNeedsOverlap ==
    \A r \in Requests :
        (Answered200(r) /\ ~req[r].exact) =>
            (r \in overlapped \/ req[r].after_failure)

\* C10 witness: no request has failed, yet one response holds a region of
\* the other request's image and the other response has lost a region of
\* its own
C10_Witness ==
    /\ ~failed_before
    /\ \E r, q \in Requests :
          /\ r # q
          /\ Answered200(r)
          /\ Answered200(q)
          /\ req[r].foreign
          /\ req[q].lost

===========================================================================
